---- MODULE Spec2Model ----
(***************************************************************************)
(* A model of wg-automation (src/main.py): one provisioning run reads the  *)
(* live WireGuard status, resolves the subnet from the persisted config,   *)
(* allocates the first free host address, writes the client artifacts,     *)
(* registers the peer (`wg set`) and persists it (`wg-quick save`).        *)
(*                                                                         *)
(* Addresses are AddrBits-bit integers (IPv4 scaled down from 32 bits), a  *)
(* text is a sequence of lines and a line the sequence of its whitespace-  *)
(* separated tokens, so that str.split()[-1] is the last token of a line.  *)
(***************************************************************************)
EXTENDS Integers, Sequences, FiniteSets, TLC

\* ------------------------------------------------------------- bounds
AddrBits == 3
MaxUsed == 2
MaxRuns == 2
MaxSet == 4

Procs == {1, 2}
Addr == 0 .. (2 ^ AddrBits - 1)
PrefixLens == 0 .. AddrBits

\* ------------------------------------------------------------- tokens
\* A token of a text line.  k is the token's text for a plain word; an
\* address in CIDR form "n/len" has k = "cidr" (k = "cidr," when a comma
\* follows it), a base64 key has k = "key" and n its identity.
Word(s) == [k |-> s, n |-> 0, len |-> 0]
Cidr(a, l) == [k |-> "cidr", n |-> a, len |-> l]
CidrComma(a, l) == [k |-> "cidr,", n |-> a, len |-> l]
KeyTok(id) == [k |-> "key", n |-> id, len |-> 0]

NoTok == Word("")
NoIp == 0 - 1
NoNet == [net |-> NoIp, len |-> 0]

InterfaceTok == Word("wg0")
ServerKey == 0
\* `wg pubkey`: the public key of a private key (an injective derivation).
PubKey(private_key) == 0 - private_key

Last(s) == s[Len(s)]

\* str.startswith(prefix) for a prefix that ends in a space: the prefix's
\* tokens lead the line and something follows them (the lines are stripped).
StartsWithSp(line, prefix) ==
    /\ Len(line) > Len(prefix)
    /\ SubSeq(line, 1, Len(prefix)) = prefix

\* str.startswith(prefix) for a prefix that ends inside the last token.
StartsWith(line, prefix) ==
    /\ Len(line) >= Len(prefix)
    /\ SubSeq(line, 1, Len(prefix)) = prefix

\* "(none)" in line
HasNone(line) == \E i \in 1 .. Len(line) : line[i] = Word("(none)")

\* ------------------------------------------------------- ipaddress
\* ipaddress.ip_network(text, strict=False): the host bits are masked off.
ip_network(tok) ==
    [net |-> tok.n - (tok.n % (2 ^ (AddrBits - tok.len))), len |-> tok.len]

\* ipaddress.ip_address(text.split("/")[0])
ip_address(tok) == tok.n

NetSize(address) == 2 ^ (AddrBits - address.len)

\* IPv4Network.hosts(): ascending; the network and broadcast addresses are
\* left out, except that a prefix one bit short of the width yields both
\* addresses and a full-width prefix yields its single address.
hosts(address) ==
    IF address.len = AddrBits THEN << address.net >>
    ELSE IF address.len = AddrBits - 1 THEN << address.net, address.net + 1 >>
    ELSE [i \in 1 .. (NetSize(address) - 2) |-> address.net + i]

\* ------------------------------------------------------- pure parsing
RECURSIVE FirstLine(_, _, _)
\* index of the first line from i on for which the prefix test holds, or 0
FirstLine(lines, prefix, i) ==
    IF i > Len(lines) THEN 0
    ELSE IF StartsWithSp(lines[i], prefix) THEN i
    ELSE FirstLine(lines, prefix, i + 1)

find_interface(wg_show_output) ==
    LET i == FirstLine(wg_show_output, << Word("interface:") >>, 1)
    IN  IF i = 0 THEN NoTok ELSE Last(wg_show_output[i])

find_server_public_key(wg_show_output) ==
    LET i == FirstLine(wg_show_output, << Word("public"), Word("key:") >>, 1)
    IN  IF i = 0 THEN NoTok ELSE Last(wg_show_output[i])

RECURSIVE find_using_ips(_)
\* the sequence of yielded tokens: the last token of every "allowed ips"
\* line that does not contain "(none)"
find_using_ips(wg_output) ==
    IF wg_output = << >> THEN << >>
    ELSE LET line == Head(wg_output)
             rest == find_using_ips(Tail(wg_output))
         IN  IF StartsWith(line, << Word("allowed"), Word("ips:") >>)
                  /\ ~HasNone(line)
             THEN << Last(line) >> \o rest
             ELSE rest

RECURSIVE ScanHosts(_, _, _)
ScanHosts(hs, used_ips, i) ==
    IF i > Len(hs) THEN NoIp
    ELSE IF hs[i] \notin used_ips THEN hs[i]
    ELSE ScanHosts(hs, used_ips, i + 1)

RECURSIVE ScanHostsDown(_, _, _)
ScanHostsDown(hs, used_ips, i) ==
    IF i < 1 THEN NoIp
    ELSE IF hs[i] \notin used_ips THEN hs[i]
    ELSE ScanHostsDown(hs, used_ips, i - 1)

\* find_unused_ip scanning from the top: the last free host
find_unused_ip_last(used_ips, address) ==
    ScanHostsDown(hosts(address), used_ips, Len(hosts(address)))

\* find_unused_ip that starts over when every host is used
find_unused_ip_wrap(used_ips, address) ==
    IF ScanHosts(hosts(address), used_ips, 1) = NoIp THEN hosts(address)[1]
    ELSE ScanHosts(hosts(address), used_ips, 1)

\* find_unused_ip that does not look at the used set
find_unused_ip_first(used_ips, address) == hosts(address)[1]

\* the first host of the network that is not used, NoIp when all are used
find_unused_ip(used_ips, address) == ScanHosts(hosts(address), used_ips, 1)

\* --------------------------------------------------------------- state
VARIABLES
    live,     \* the interface's live peer table: a sequence of
              \* [key, ips], ips the peer's allowed addresses in order
    cfg,      \* /etc/wireguard/<interface>.conf: [exists, has_address,
              \* address (the Address directive), peers (as last saved)]
    fs,       \* the working directory: a set of [dir, file, doc]
    runs,     \* how many times the program has been started
    pc,       \* per process: the call of main() it is about to make
    loc,      \* per process: the local variables of main()
    err,      \* per process: the message of the exception that ended it
    trace,    \* per process: the steps executed so far, [step, ok]
    pre       \* per process: live, cfg and fs as they were at its start

vars == << live, cfg, fs, runs, pc, loc, err, trace, pre >>

Users == {"alice", "bob"}

LocInit ==
    [wg_show_output |-> << >>, interface_name |-> NoTok,
     server_public_key |-> NoTok, username |-> "", private_key |-> 0,
     public_key |-> 0, address |-> NoNet, used_ips |-> {}, ip |-> NoTok]

NoDoc == [address |-> NoTok, private_key |-> 0, server_public_key |-> NoTok]

\* ------------------------------------------------- the external tools
\* `wg show`, the "allowed ips" line of one peer
AllowedIpsLine(ips) ==
    << Word("allowed"), Word("ips:") >> \o
    (IF ips = << >> THEN << Word("(none)") >>
     ELSE [i \in 1 .. Len(ips) |->
              IF i < Len(ips) THEN CidrComma(ips[i], AddrBits)
              ELSE Cidr(ips[i], AddrBits)])

RECURSIVE PeerLines(_)
PeerLines(peers) ==
    IF peers = << >> THEN << >>
    ELSE << << Word("peer:"), KeyTok(Head(peers).key) >>,
            AllowedIpsLine(Head(peers).ips) >> \o PeerLines(Tail(peers))

\* `wg show`: the text printed for the live table.  variant leaves out the
\* interface line or the public key line, for the texts the parsers reject.
WgShow(table, variant) ==
    (IF variant = "no_interface" THEN << >>
     ELSE << << Word("interface:"), InterfaceTok >> >>) \o
    (IF variant = "no_public_key" THEN << >>
     ELSE << << Word("public"), Word("key:"), KeyTok(ServerKey) >> >>) \o
    << << Word("listening"), Word("port:"), Word("51820") >> >> \o
    PeerLines(table)

ShowOutcomes == {"error", "empty", "full", "no_interface", "no_public_key"}

RECURSIVE ConfPeerLines(_)
ConfPeerLines(peers) ==
    IF peers = << >> THEN << >>
    ELSE << << Word("[Peer]") >>,
            << Word("PublicKey"), Word("="), KeyTok(Head(peers).key) >>,
            << Word("AllowedIPs"), Word("=") >> \o
               [i \in 1 .. Len(Head(peers).ips) |->
                   IF i < Len(Head(peers).ips)
                   THEN CidrComma(Head(peers).ips[i], AddrBits)
                   ELSE Cidr(Head(peers).ips[i], AddrBits)] >>
         \o ConfPeerLines(Tail(peers))

\* the lines of the configuration file, as find_address reads them
ConfLines(c) ==
    << << Word("[Interface]") >> >> \o
    (IF c.has_address
     THEN << << Word("Address"), Word("="), c.address >> >> ELSE << >>) \o
    << << Word("ListenPort"), Word("="), Word("51820") >> >> \o
    ConfPeerLines(c.peers)

\* `wg set <interface> peer <key> allowed-ips <ip>`: the peer's allowed
\* addresses become the one given; an unknown key is a new peer.
WgSet(table, public_key, ip) ==
    IF \E i \in 1 .. Len(table) : table[i].key = public_key
    THEN [i \in 1 .. Len(table) |->
             IF table[i].key = public_key
             THEN [key |-> public_key, ips |-> << ip.n >>] ELSE table[i]]
    ELSE Append(table, [key |-> public_key, ips |-> << ip.n >>])

\* `wg-quick save <interface>`: the file's peer table becomes the live one
WgQuickSave(c, table) == [c EXCEPT !.peers = table]

\* `wg genkey`: a key no peer, file or running process holds
UsedPrivateKeys ==
    { 0 - live[i].key : i \in 1 .. Len(live) } \cup
    { 0 - cfg.peers[i].key : i \in 1 .. Len(cfg.peers) } \cup
    { f.doc.private_key : f \in fs } \cup
    { loc[p].private_key : p \in Procs }

GenKey == CHOOSE k \in 1 .. (Cardinality(UsedPrivateKeys) + 1) :
              /\ k \notin UsedPrivateKeys
              /\ \A j \in 1 .. (k - 1) : j \in UsedPrivateKeys

\* -------------------------------------------------------- find_address
RECURSIVE FirstAddressLine(_, _)
FirstAddressLine(lines, i) ==
    IF i > Len(lines) THEN 0
    ELSE IF StartsWith(lines[i], << Word("Address") >>) THEN i
    ELSE FirstAddressLine(lines, i + 1)

\* << network, interface address >>, or the failure: the file is missing
\* (the assert) or holds no Address line (the exception)
find_address(c) ==
    IF ~c.exists THEN [ok |-> FALSE, msg |-> "cannot find config file",
                       address |-> NoNet, address_as_ip |-> NoIp]
    ELSE LET i == FirstAddressLine(ConfLines(c), 1)
         IN  IF i = 0
             THEN [ok |-> FALSE, msg |-> "Address not found!",
                   address |-> NoNet, address_as_ip |-> NoIp]
             ELSE LET ip == Last(ConfLines(c)[i])
                  IN  [ok |-> TRUE, msg |-> "",
                       address |-> ip_network(ip),
                       address_as_ip |-> ip_address(ip)]

\* make_new_ip without used_ips.add(address_as_ip)
UsedIpsPeersOnly(wg_output, address_as_ip) ==
    { ip_address(find_using_ips(wg_output)[i]) :
          i \in 1 .. Len(find_using_ips(wg_output)) }

\* the used_ips set of make_new_ip
UsedIps(wg_output, address_as_ip) ==
    { ip_address(find_using_ips(wg_output)[i]) :
          i \in 1 .. Len(find_using_ips(wg_output)) } \cup { address_as_ip }

\* make_new_config_file: the client's configuration document
make_new_config_file(address, private_key, server_public_key) ==
    [address |-> address, private_key |-> private_key,
     server_public_key |-> server_public_key]

\* ------------------------------------------------------------- actions
ExitCodes == {0, 1}

Snapshot == [live |-> live, cfg |-> cfg, fs |-> fs]

\* an exception (or failed assert) leaves main(): nothing later runs
Raise(p, step, msg) ==
    /\ pc' = [pc EXCEPT ![p] = "failed"]
    /\ err' = [err EXCEPT ![p] = msg]
    /\ trace' = [trace EXCEPT ![p] = Append(@, [step |-> step, ok |-> FALSE])]

\* the call returned: main() goes on to the next call
Return(p, step, next) ==
    /\ pc' = [pc EXCEPT ![p] = next]
    /\ trace' = [trace EXCEPT ![p] = Append(@, [step |-> step, ok |-> TRUE])]
    /\ err' = err

\* the program is started: check_requirements(), then main()
Start(p) ==
    /\ runs' = runs + 1
    /\ loc' = [loc EXCEPT ![p] = LocInit]
    /\ pre' = [pre EXCEPT ![p] = Snapshot]
    /\ \E ok \in BOOLEAN :
          IF ok
          THEN /\ pc' = [pc EXCEPT ![p] = "get_wg_show_output"]
               /\ err' = [err EXCEPT ![p] = ""]
               /\ trace' = [trace EXCEPT ![p] = << >>]
          ELSE /\ pc' = [pc EXCEPT ![p] = "failed"]
               /\ err' = [err EXCEPT ![p] = "requirements"]
               /\ trace' = [trace EXCEPT ![p] =
                               << [step |-> "check_requirements", ok |-> FALSE] >>]
    /\ UNCHANGED << live, cfg, fs >>

\* the operator runs the program
Invoke(p) ==
    /\ pc[p] = "idle"
    /\ Start(p)

\* the operator runs the program again, after the run before has ended
Restart(p) ==
    /\ pc[p] \in {"done", "failed"}
    /\ runs < MaxRuns
    /\ Start(p)

GetWgShowOutput(p) ==
    /\ pc[p] = "get_wg_show_output"
    /\ \E outcome \in ShowOutcomes :
          IF outcome = "error"
          THEN /\ Raise(p, "get_wg_show_output", "CalledProcessError")
               /\ loc' = loc
          ELSE IF outcome = "empty"
          THEN /\ Raise(p, "get_wg_show_output",
                        "Empty output from wg show command.")
               /\ loc' = loc
          ELSE /\ Return(p, "get_wg_show_output", "find_interface")
               /\ loc' = [loc EXCEPT ![p].wg_show_output = WgShow(live, outcome)]
    /\ UNCHANGED << live, cfg, fs, runs, pre >>

FindInterface(p) ==
    /\ pc[p] = "find_interface"
    /\ LET name == find_interface(loc[p].wg_show_output)
       IN  IF name = NoTok
           THEN /\ Raise(p, "find_interface", "Cannot find interface name.")
                /\ loc' = loc
           ELSE /\ Return(p, "find_interface", "find_server_public_key")
                /\ loc' = [loc EXCEPT ![p].interface_name = name]
    /\ UNCHANGED << live, cfg, fs, runs, pre >>

FindServerPublicKey(p) ==
    /\ pc[p] = "find_server_public_key"
    /\ LET key == find_server_public_key(loc[p].wg_show_output)
       IN  IF key = NoTok
           THEN /\ Raise(p, "find_server_public_key",
                         "Cannot find server public key")
                /\ loc' = loc
           ELSE /\ Return(p, "find_server_public_key", "get_user")
                /\ loc' = [loc EXCEPT ![p].server_public_key = key]
    /\ UNCHANGED << live, cfg, fs, runs, pre >>

GetUser(p) ==
    /\ pc[p] = "get_user"
    /\ \E username \in Users \cup {""} :
          IF username = ""
          THEN /\ Raise(p, "get_user", "Empty username is not allowed.")
               /\ loc' = loc
          ELSE /\ Return(p, "get_user", "gen_private_key")
               /\ loc' = [loc EXCEPT ![p].username = username]
    /\ UNCHANGED << live, cfg, fs, runs, pre >>

GenPrivateKey(p) ==
    /\ pc[p] = "gen_private_key"
    /\ \E rc \in ExitCodes :
          IF rc # 0
          THEN /\ Raise(p, "gen_private_key", "CalledProcessError")
               /\ loc' = loc
          ELSE /\ Return(p, "gen_private_key", "gen_public_key")
               /\ loc' = [loc EXCEPT ![p].private_key = GenKey]
    /\ UNCHANGED << live, cfg, fs, runs, pre >>

GenPublicKey(p) ==
    /\ pc[p] = "gen_public_key"
    /\ \E rc \in ExitCodes :
          IF rc # 0
          THEN /\ Raise(p, "gen_public_key", "CalledProcessError")
               /\ loc' = loc
          ELSE /\ Return(p, "gen_public_key", "make_new_ip")
               /\ loc' = [loc EXCEPT ![p].public_key = PubKey(loc[p].private_key)]
    /\ UNCHANGED << live, cfg, fs, runs, pre >>

\* make_new_ip up to the call of find_unused_ip: the configuration file is
\* read now, the used addresses come from the status text read earlier
MakeNewIp(p) ==
    /\ pc[p] = "make_new_ip"
    /\ LET r == find_address(cfg)
       IN  IF ~r.ok
           THEN /\ Raise(p, "make_new_ip", r.msg)
                /\ loc' = loc
           ELSE /\ pc' = [pc EXCEPT ![p] = "find_unused_ip"]
                /\ loc' = [loc EXCEPT
                              ![p].address = r.address,
                              ![p].used_ips =
                                  UsedIps(loc[p].wg_show_output, r.address_as_ip)]
                /\ UNCHANGED << err, trace >>
    /\ UNCHANGED << live, cfg, fs, runs, pre >>

\* find_unused_ip, and make_new_ip's return of "<new_ip>/32"
FindUnusedIp(p) ==
    /\ pc[p] = "find_unused_ip"
    /\ LET new_ip == find_unused_ip(loc[p].used_ips, loc[p].address)
       IN  IF new_ip = NoIp
           THEN /\ Raise(p, "make_new_ip", "All valid IPs are used.")
                /\ loc' = loc
           ELSE /\ Return(p, "make_new_ip", "mkdir")
                /\ loc' = [loc EXCEPT ![p].ip = Cidr(new_ip, AddrBits)]
    /\ UNCHANGED << live, cfg, fs, runs, pre >>

\* make_configs: os.mkdir(username)
Mkdir(p) ==
    /\ pc[p] = "mkdir"
    /\ IF \E f \in fs : f.dir = loc[p].username
       THEN /\ Raise(p, "mkdir", "FileExistsError")
            /\ fs' = fs
       ELSE /\ Return(p, "mkdir", "write_conf")
            /\ fs' = fs \cup {[dir |-> loc[p].username, file |-> "", doc |-> NoDoc]}
    /\ UNCHANGED << live, cfg, runs, loc, pre >>

\* make_configs that never writes <username>.conf
WriteConfSkipped(p) ==
    /\ pc[p] = "write_conf"
    /\ Return(p, "write_conf", "make_qr_code")
    /\ UNCHANGED << live, cfg, fs, runs, loc, pre >>

\* make_configs: the configuration document is written to <username>.conf
WriteConf(p) ==
    /\ pc[p] = "write_conf"
    /\ \E ok \in BOOLEAN :
          IF ~ok
          THEN /\ Raise(p, "write_conf", "OSError")
               /\ fs' = fs
          ELSE /\ Return(p, "write_conf", "make_qr_code")
               /\ fs' = fs \cup
                    {[dir |-> loc[p].username, file |-> "conf",
                      doc |-> make_new_config_file(loc[p].ip, loc[p].private_key,
                                                   loc[p].server_public_key)]}
    /\ UNCHANGED << live, cfg, runs, loc, pre >>

\* make_qr_code: subprocess.call, whose exit status is not looked at
MakeQrCode(p) ==
    /\ pc[p] = "make_qr_code"
    /\ \E rc \in ExitCodes :
          /\ fs' = IF rc = 0
                   THEN fs \cup {[dir |-> loc[p].username, file |-> "png",
                                  doc |-> NoDoc]}
                   ELSE fs
          /\ pc' = [pc EXCEPT ![p] = "insert_new_peer"]
          /\ trace' = [trace EXCEPT ![p] =
                          Append(@, [step |-> "make_qr_code", ok |-> rc = 0])]
    /\ UNCHANGED << live, cfg, runs, loc, err, pre >>

\* insert_new_peer without its assert on the exit status
InsertNewPeerUnchecked(p) ==
    /\ pc[p] = "insert_new_peer"
    /\ \E rc \in ExitCodes :
          /\ pc' = [pc EXCEPT ![p] = "save_new_config"]
          /\ trace' = [trace EXCEPT ![p] =
                          Append(@, [step |-> "insert_new_peer", ok |-> rc = 0])]
          /\ live' = IF rc = 0 THEN WgSet(live, loc[p].public_key, loc[p].ip)
                     ELSE live
    /\ UNCHANGED << cfg, fs, runs, loc, err, pre >>

\* insert_new_peer called with the private key in place of the public key
InsertNewPeerPrivateKey(p) ==
    /\ pc[p] = "insert_new_peer"
    /\ \E rc \in ExitCodes :
          IF rc # 0
          THEN /\ Raise(p, "insert_new_peer", "inserting new peer failed.")
               /\ live' = live
          ELSE /\ Return(p, "insert_new_peer", "save_new_config")
               /\ live' = WgSet(live, loc[p].private_key, loc[p].ip)
    /\ UNCHANGED << cfg, fs, runs, loc, pre >>

InsertNewPeer(p) ==
    /\ pc[p] = "insert_new_peer"
    /\ \E rc \in ExitCodes :
          IF rc # 0
          THEN /\ Raise(p, "insert_new_peer", "inserting new peer failed.")
               /\ live' = live
          ELSE /\ Return(p, "insert_new_peer", "save_new_config")
               /\ live' = WgSet(live, loc[p].public_key, loc[p].ip)
    /\ UNCHANGED << cfg, fs, runs, loc, pre >>

SaveNewConfig(p) ==
    /\ pc[p] = "save_new_config"
    /\ \E rc \in ExitCodes :
          IF rc # 0
          THEN /\ Raise(p, "save_new_config", "saving new config failed.")
               /\ cfg' = cfg
          ELSE /\ Return(p, "save_new_config", "done")
               /\ cfg' = WgQuickSave(cfg, live)
    /\ UNCHANGED << live, fs, runs, loc, pre >>

Step(p) ==
    \/ Invoke(p)
    \/ GetWgShowOutput(p)
    \/ FindInterface(p)
    \/ FindServerPublicKey(p)
    \/ GetUser(p)
    \/ GenPrivateKey(p)
    \/ GenPublicKey(p)
    \/ MakeNewIp(p)
    \/ FindUnusedIp(p)
    \/ Mkdir(p)
    \/ WriteConf(p)
    \/ MakeQrCode(p)
    \/ InsertNewPeer(p)
    \/ SaveNewConfig(p)

\* ------------------------------------------------------ initial states
RECURSIVE Subsets(_, _)
\* the subsets of S with at most k elements
Subsets(S, k) ==
    IF k = 0 THEN {{}}
    ELSE LET T == Subsets(S, k - 1)
         IN  T \cup { A \cup {x} : A \in T, x \in S }

RECURSIVE Ascending(_)
Ascending(A) ==
    IF A = {} THEN << >>
    ELSE LET m == CHOOSE x \in A : \A y \in A : x <= y
         IN  << m >> \o Ascending(A \ {m})

RECURSIVE Groupings(_)
\* the ways to cut a sequence into consecutive non-empty pieces
Groupings(s) ==
    IF s = << >> THEN {<< >>}
    ELSE UNION { { << SubSeq(s, 1, k) >> \o g :
                      g \in Groupings(SubSeq(s, k + 1, Len(s))) } :
                 k \in 1 .. Len(s) }

\* the peer table whose i-th peer is allowed the addresses groups[i]
PeerTable(groups) ==
    [i \in 1 .. Len(groups) |-> [key |-> PubKey(i), ips |-> groups[i]]]

\* one peer per address of A, each with that single address
Singles(A) == PeerTable([i \in 1 .. Cardinality(A) |-> << Ascending(A)[i] >>])

HostSet(address) == { hosts(address)[i] : i \in 1 .. Len(hosts(address)) }

Cidrs == { Cidr(a, l) : a \in Addr, l \in PrefixLens }

Conf(exists, has_address, address, peers) ==
    [exists |-> exists, has_address |-> has_address, address |-> address,
     peers |-> peers]

ProcInit ==
    /\ fs = {}
    /\ runs = 0
    /\ pc = [p \in Procs |-> "idle"]
    /\ loc = [p \in Procs |-> LocInit]
    /\ err = [p \in Procs |-> ""]
    /\ trace = [p \in Procs |-> << >>]
    /\ pre = [p \in Procs |-> [live |-> << >>, cfg |-> Conf(FALSE, FALSE, NoTok, << >>),
                               fs |-> {}]]

\* The interface is up with some peers, each allowed one address of the
\* subnet's hosts, pairwise distinct and not the interface's own; the file
\* holds the same peers, and may be missing or lack its Address line.
Init ==
    /\ \/ \E a \in Cidrs :
             \E A \in Subsets(HostSet(ip_network(a)) \ {ip_address(a)}, MaxUsed) :
                /\ live = Singles(A)
                /\ cfg = Conf(TRUE, TRUE, a, Singles(A))
       \/ /\ live = << >>
          /\ cfg \in {Conf(FALSE, FALSE, NoTok, << >>), Conf(TRUE, FALSE, NoTok, << >>)}
    /\ ProcInit

Next == \E p \in {1} : Step(p)

Spec == Init /\ [][Next]_vars

\* ---- sequential runs: the program is run again and again
\* The initial peers hold the lowest hosts other than the interface's own
\* address, as earlier runs of the program leave them.
LowestFree(address, own, j) ==
    { h \in HostSet(address) \ {own} :
         Cardinality({ g \in HostSet(address) \ {own} : g < h }) < j }

InitSeq ==
    /\ \E a \in Cidrs : \E j \in 0 .. MaxUsed :
          /\ live = Singles(LowestFree(ip_network(a), ip_address(a), j))
          /\ cfg = Conf(TRUE, TRUE, a, live)
    /\ ProcInit

NextSeq == \E p \in {1} : Step(p) \/ Restart(p)

SpecSeq == InitSeq /\ [][NextSeq]_vars

\* ---- two runs at once: two operators run the program, nothing serialises
\* the steps of the two processes
NextRace == \E p \in Procs : Step(p)

SpecRace == InitSeq /\ [][NextRace]_vars

\* ---- find_unused_ip alone, on any used set and any network
Nets == { ip_network(a) : a \in Cidrs }

InitAlloc ==
    /\ \E U \in Subsets(Addr, MaxSet) : \E S \in Nets :
          loc = [p \in Procs |->
                    IF p = 1 THEN [LocInit EXCEPT !.used_ips = U, !.address = S]
                    ELSE LocInit]
    /\ live = << >>
    /\ cfg = Conf(FALSE, FALSE, NoTok, << >>)
    /\ fs = {}
    /\ runs = 0
    /\ pc = [p \in Procs |-> IF p = 1 THEN "find_unused_ip" ELSE "idle"]
    /\ err = [p \in Procs |-> ""]
    /\ trace = [p \in Procs |-> << >>]
    /\ pre = [p \in Procs |-> [live |-> << >>, cfg |-> Conf(FALSE, FALSE, NoTok, << >>),
                               fs |-> {}]]

NextAlloc == FindUnusedIp(1)

SpecAlloc == InitAlloc /\ [][NextAlloc]_vars

\* ---- make_new_ip alone, on any status text and any Address directive:
\* peers may be allowed several addresses, or none
Tables ==
    UNION { { PeerTable(none \o g) : g \in Groupings(Ascending(A)),
                                     none \in {<< >>, << << >> >>} } :
            A \in Subsets(Addr, MaxUsed) }

InitIp ==
    /\ \E a \in Cidrs : \E t \in Tables :
          /\ live = t
          /\ cfg = Conf(TRUE, TRUE, a, t)
          /\ loc = [p \in Procs |->
                       IF p = 1
                       THEN [LocInit EXCEPT !.wg_show_output = WgShow(t, "full")]
                       ELSE LocInit]
    /\ fs = {}
    /\ runs = 0
    /\ pc = [p \in Procs |-> IF p = 1 THEN "make_new_ip" ELSE "idle"]
    /\ err = [p \in Procs |-> ""]
    /\ trace = [p \in Procs |-> << >>]
    /\ pre = [p \in Procs |-> [live |-> << >>, cfg |-> Conf(FALSE, FALSE, NoTok, << >>),
                               fs |-> {}]]

NextIp == MakeNewIp(1) \/ FindUnusedIp(1)

SpecIp == InitIp /\ [][NextIp]_vars

\* ============================================================== claims
\* the host addresses of a network as the claims define them: every
\* address of the block but its network and its broadcast address
SubnetHosts(address) ==
    { a \in Addr : address.net < a /\ a < address.net + NetSize(address) - 1 }

\* every address some peer of the table is allowed
AllowedOf(table) ==
    UNION { { table[i].ips[j] : j \in 1 .. Len(table[i].ips) } :
            i \in 1 .. Len(table) }

Steps(t) == { t[i].step : i \in 1 .. Len(t) }

\* C1: for a used set U inside the subnet's hosts that leaves a host free,
\* find_unused_ip returns a host of the subnet that is not in U and is the
\* smallest such host.
C1_SmallestFreeHost ==
    LET U == loc[1].used_ips
        S == loc[1].address
        H == SubnetHosts(S)
    IN  (pc[1] # "find_unused_ip" /\ U \subseteq H /\ H \ U # {}) =>
            /\ pc[1] = "mkdir"
            /\ loc[1].ip.n \in H \ U
            /\ \A h \in H \ U : loc[1].ip.n <= h

\* C1 witness: the whole block, its first three hosts used: the fourth is
\* returned (10.10.50.1, .2 and .3 used, 10.10.50.4 allocated)
C1_Witness ==
    /\ pc[1] = "mkdir"
    /\ loc[1].address = [net |-> 0, len |-> 0]
    /\ loc[1].used_ips = {1, 2, 3}
    /\ loc[1].ip = Cidr(4, AddrBits)

\* C7: the interface's own address is in the used set handed to the
\* allocator, whether or not a peer holds it, and the address make_new_ip
\* returns is never the interface's own.
C7_OwnAddressReserved ==
    /\ pc[1] \in {"find_unused_ip", "mkdir"} => cfg.address.n \in loc[1].used_ips
    /\ pc[1] = "mkdir" => loc[1].ip.n # cfg.address.n

\* C7 witness: no peer holds the interface's address, which is the first
\* host of the subnet, and an address has been returned
C7_Witness ==
    /\ pc[1] = "mkdir"
    /\ cfg.address.n \notin AllowedOf(live)
    /\ cfg.address.n = hosts(loc[1].address)[1]
    /\ live # << >>

\* C8: the used set is the interface's own address together with every
\* address on every peer's "allowed ips" line ("(none)" adding nothing),
\* also when a line lists several addresses, so no address allowed to a
\* peer is ever returned.
C8_UsedSetIsAllAllowed ==
    /\ pc[1] \in {"find_unused_ip", "mkdir"} =>
           loc[1].used_ips = AllowedOf(live) \cup {cfg.address.n}
    /\ pc[1] = "mkdir" => loc[1].ip.n \notin AllowedOf(live)

Registered(p) == [key |-> loc[p].public_key, ips |-> << loc[p].ip.n >>]

InTable(table, peer) == \E i \in 1 .. Len(table) : table[i] = peer

HasKey(table, key) == \E i \in 1 .. Len(table) : table[i].key = key

\* the files of the working directory that belong to one user
FilesOf(username) == { f \in fs : f.dir = username }

\* C2: the persist step is invoked only after the registration step has
\* returned with exit status 0; when the registration command exits
\* non-zero the run ends with the registration failure and the persist
\* step is never invoked.
C2_PersistOnlyAfterRegistration ==
    \A p \in Procs :
       /\ (pc[p] = "save_new_config" \/ "save_new_config" \in Steps(trace[p])) =>
             \E i \in 1 .. Len(trace[p]) :
                /\ trace[p][i] = [step |-> "insert_new_peer", ok |-> TRUE]
                /\ \A j \in 1 .. i : trace[p][j].step # "save_new_config"
       /\ (\E i \in 1 .. Len(trace[p]) :
              trace[p][i] = [step |-> "insert_new_peer", ok |-> FALSE]) =>
             /\ pc[p] = "failed"
             /\ err[p] = "inserting new peer failed."
             /\ "save_new_config" \notin Steps(trace[p])

\* C2 witness: the registration command has exited non-zero
C2_Witness ==
    /\ Len(trace[1]) > 0
    /\ Last(trace[1]) = [step |-> "insert_new_peer", ok |-> FALSE]

\* C3 as stated: a run whose registration step fails leaves the live peer
\* table, the persisted configuration and the file system as they were
\* when the run started.
C3_NoSideEffect ==
    \A p \in Procs :
       err[p] = "inserting new peer failed." =>
          /\ live = pre[p].live
          /\ cfg = pre[p].cfg
          /\ fs = pre[p].fs

\* C3 amended: a run whose registration step fails leaves the live peer
\* table and the persisted configuration as they were, but the client's
\* directory and its configuration file, holding the allocated address,
\* have been written and stay; nothing else of the file system changed.
C3_OnlyArtifactsLeft ==
    \A p \in Procs :
       err[p] = "inserting new peer failed." =>
          /\ live = pre[p].live
          /\ cfg = pre[p].cfg
          /\ pre[p].fs \subseteq fs
          /\ fs \ pre[p].fs \subseteq FilesOf(loc[p].username)
          /\ \E d \in fs \ pre[p].fs : d.file = ""
          /\ \E f \in fs \ pre[p].fs :
                f.file = "conf" /\ f.doc.address = loc[p].ip

\* C3 witness: the registration failed, with the QR image written too
C3_Witness ==
    /\ err[1] = "inserting new peer failed."
    /\ \E f \in fs : f.file = "png"
    /\ live # << >>

\* C4: when every host of the subnet is in the used set, allocation fails
\* with the pool-exhausted error, no artifact has been written and neither
\* the registration nor the persist command has been invoked.
C4_PoolExhausted ==
    \A p \in Procs :
       (/\ "make_new_ip" \in Steps(trace[p])
        /\ loc[p].address # NoNet
        /\ HostSet(loc[p].address) \subseteq loc[p].used_ips) =>
          /\ pc[p] = "failed"
          /\ err[p] = "All valid IPs are used."
          /\ fs = pre[p].fs
          /\ live = pre[p].live
          /\ cfg = pre[p].cfg
          /\ Steps(trace[p]) \cap
                {"mkdir", "write_conf", "make_qr_code", "insert_new_peer",
                 "save_new_config"} = {}

\* C4 witness: a subnet of two hosts, one the interface's own and one a
\* peer's (10.10.50.0/30 with both hosts used)
C4_Witness ==
    /\ err[1] = "All valid IPs are used."
    /\ loc[1].address.len = AddrBits - 2
    /\ Len(live) = 1

\* C5: a step of a run that fails is the last step of the run: no later
\* step of the pipeline executes.
C5_FailFast ==
    \A p \in Procs :
       \A i \in 1 .. Len(trace[p]) :
          ~trace[p][i].ok => (i = Len(trace[p]) /\ pc[p] = "failed")

\* C6: when the registration succeeds and the persist command exits
\* non-zero, the run ends with the persist failure, the live table holds
\* the new peer (its public key and its single allocated address) on top
\* of what it held, the persisted configuration is as it was and does not
\* hold it; a registration failure leaves the live table as it was.
C6_LiveAheadOfPersisted ==
    \A p \in Procs :
       /\ err[p] = "saving new config failed." =>
             /\ pc[p] = "failed"
             /\ live = Append(pre[p].live, Registered(p))
             /\ loc[p].ip.len = AddrBits
             /\ cfg = pre[p].cfg
             /\ ~HasKey(cfg.peers, loc[p].public_key)
       /\ err[p] = "inserting new peer failed." =>
             /\ live = pre[p].live
             /\ ~HasKey(live, loc[p].public_key)

\* C6 witness: the persist command has exited non-zero
C6_Witness ==
    /\ err[1] = "saving new config failed."
    /\ HasKey(live, loc[1].public_key)

CollisionFree(table) ==
    /\ \A i \in 1 .. Len(table) :
          /\ Len(table[i].ips) = 1
          /\ table[i].ips[1] \in HostSet(ip_network(cfg.address))
          /\ table[i].ips[1] # cfg.address.n
    /\ \A i, j \in 1 .. Len(table) : i # j => table[i].ips[1] # table[j].ips[1]

\* C10: over runs that follow one another the live table stays collision
\* free, and a run that succeeds has added exactly one peer and changed no
\* entry that was there.
C10_SequentialRunsCollisionFree ==
    /\ CollisionFree(live)
    /\ pc[1] = "done" =>
          /\ Len(live) = Len(pre[1].live) + 1
          /\ SubSeq(live, 1, Len(pre[1].live)) = pre[1].live
          /\ Last(live) = Registered(1)

\* C10 witness: the second run is done, and both peers of the table were
\* added by runs (their configuration documents are in the directory)
C10_Witness ==
    /\ pc[1] = "done"
    /\ runs = 2
    /\ Len(live) = 2
    /\ \A i \in 1 .. 2 :
          \E f \in fs : /\ f.file = "conf"
                        /\ PubKey(f.doc.private_key) = live[i].key
                        /\ f.doc.address.n = live[i].ips[1]

====
